---- MODULE Spec2Model ----
(***************************************************************************)
(* A model of the consumer configuration and lifecycle subsystem of        *)
(* jsm.go (consumer.go): the option model that builds a ConsumerConfig,    *)
(* and the Manager/Consumer operations that create, load, update and       *)
(* inspect a consumer through the request/response gateway.                *)
(*                                                                         *)
(* The specifications:                                                     *)
(*   SpecCfg  one call of NewConsumerConfiguration on a template and an    *)
(*            option sequence drawn from bounded sets;                     *)
(*   SpecMgr  one call of a Manager operation, on any engine state;        *)
(*   Spec     a caller issuing Manager and Consumer operations, one after  *)
(*            the other, against a remote engine that answers, fails or    *)
(*            changes between the calls;                                   *)
(*   SpecRace two callers sharing one handle, each operation taken one     *)
(*            memory access, lock operation or request at a time.          *)
(***************************************************************************)
EXTENDS Integers, Sequences, FiniteSets, TLC

VARIABLES
    tmpl,    \* SpecCfg: the caller's template value (dflt is passed by value)
    build,   \* SpecCfg: the record of the NewConsumerConfiguration call
    remote,  \* Spec: the engine's consumers of stream S: name -> <<>> or <<info>>
    c,       \* Spec: the handle the caller holds: <<>> or <<Consumer>>
    last,    \* Spec: the record of the last call: inputs, requests sent, result
    calls,   \* Spec: the number of calls made so far
    nc,      \* the options of the Manager's connection (m.nc.Opts)
    mu,      \* SpecRace: the holder of the handle's mutex, or "free"
    thr      \* SpecRace: each caller's operation in progress and its locals

vars == <<tmpl, build, remote, c, last, calls, nc, mu, thr>>

(***************************************************************************)
(* Bounds of the model.                                                    *)
(***************************************************************************)
MaxOpts == 2      \* options given to one NewConsumerConfiguration call (SpecCfg)
MaxCalls == 3     \* calls the caller makes in one behaviour (Spec)

(***************************************************************************)
(* Values.  A string of the program that the code inspects character by    *)
(* character (a name) is a sequence of one-character strings; a pointer    *)
(* is <<>> (nil) or <<v>>; a Go slice is its backing array and its length. *)
(***************************************************************************)
NameA == <<"A">>
NameB == <<"B">>
BadName == <<"A", ".", "B">>
NoName == <<>>

Nil == <<>>
Ptr(v) == <<v>>

\* The element of a singleton set.  The({ e(x) : x \in {v} }) is "let x be v in
\* e(x)" with v evaluated once, however often e uses x.
The(S) == CHOOSE v \in S : TRUE

NilSlice == [arr |-> <<>>, len |-> 0]
SliceOf(s) == [arr |-> s, len |-> Len(s)]
Elems(sl) == SubSeq(sl.arr, 1, sl.len)

\* time.Time: an instant and a location
Time(i, l) == [inst |-> i, loc |-> l]
UTC(t) == [t EXCEPT !.loc = "UTC"]
AddDuration(t, d) == [t EXCEPT !.inst = t.inst + d]
ZeroTime == Time(0, "UTC")

\* error values: nil, an error made by fmt.Errorf, a transport failure, or a
\* structured engine error carrying a numeric code
NoErr == [kind |-> "nil", code |-> 0, msg |-> "", arg |-> <<>>]
Errorf(m, a) == [kind |-> "local", code |-> 0, msg |-> m, arg |-> a]

(***************************************************************************)
(* api.ConsumerConfig and the two built-in templates.                      *)
(***************************************************************************)
ZeroConfig ==
    [Name |-> NoName, Durable |-> NoName, Description |-> "",
     DeliverPolicy |-> "DeliverAll", OptStartSeq |-> 0, OptStartTime |-> Nil,
     AckPolicy |-> "AckNone", AckWait |-> 0, MaxDeliver |-> 0,
     FilterSubject |-> "", FilterSubjects |-> NilSlice,
     ReplayPolicy |-> "ReplayInstant", SampleFrequency |-> "",
     BackOff |-> <<>>, DeliverSubject |-> ""]

DefaultConsumer ==
    [ZeroConfig EXCEPT !.DeliverPolicy = "DeliverAll", !.AckPolicy = "AckExplicit",
                       !.AckWait = 30, !.ReplayPolicy = "ReplayInstant"]

SampledDefaultConsumer ==
    [ZeroConfig EXCEPT !.DeliverPolicy = "DeliverAll", !.AckPolicy = "AckExplicit",
                       !.AckWait = 30, !.ReplayPolicy = "ReplayInstant",
                       !.SampleFrequency = "100%"]

\* what a reader of a configuration value sees: the elements of its slices,
\* not the spare capacity of their backing arrays
CfgView(cfg) == [cfg EXCEPT !.FilterSubjects = Elems(cfg.FilterSubjects)]

(***************************************************************************)
(* IsValidName: the shared name-legality predicate.                        *)
(***************************************************************************)
IllegalChars == {".", " ", "*", ">", "/", "\\"}

IsValidName(n) == Len(n) > 0 /\ \A i \in 1..Len(n) : n[i] \notin IllegalChars

(***************************************************************************)
(* generateConsName: the first 8 bytes of a digest, each mapped into the   *)
(* 62-symbol alphabet by modulo.  The digest of a fresh nuid is an input.  *)
(***************************************************************************)
rdigits ==
    <<"0","1","2","3","4","5","6","7","8","9",
      "A","B","C","D","E","F","G","H","I","J","K","L","M","N","O","P","Q","R","S","T","U","V","W","X","Y","Z",
      "a","b","c","d","e","f","g","h","i","j","k","l","m","n","o","p","q","r","s","t","u","v","w","x","y","z">>
base == 62

generateConsName(digest) == [i \in 1..8 |-> rdigits[(digest[i] % base) + 1]]

Digests == { <<0, 61, 62, 255, 10, 36, 100, 200>>, <<7, 7, 7, 7, 7, 7, 7, 7>> }

(***************************************************************************)
(* The options.  An option value is the closure the constructor returns:   *)
(* its constructor and the arguments it captured.                          *)
(***************************************************************************)
Opt(op) == [op |-> op, n |-> 0, name |-> NoName, str |-> "", subj |-> <<>>,
            t |-> ZeroTime, durs |-> <<>>]

MkConsumerDescription(d) == [Opt("ConsumerDescription") EXCEPT !.str = d]
MkConsumerName(s) == [Opt("ConsumerName") EXCEPT !.name = s]
MkDurableName(s) == [Opt("DurableName") EXCEPT !.name = s]
MkStartAtSequence(s) == [Opt("StartAtSequence") EXCEPT !.n = s]
MkStartAtTime(t) == [Opt("StartAtTime") EXCEPT !.t = t]
MkStartAtTimeDelta(d) == [Opt("StartAtTimeDelta") EXCEPT !.n = d]
MkDeliverAllAvailable == Opt("DeliverAllAvailable")
MkDeliverLastPerSubject == Opt("DeliverLastPerSubject")
MkStartWithLastReceived == Opt("StartWithLastReceived")
MkStartWithNextReceived == Opt("StartWithNextReceived")
MkMaxDeliveryAttempts(n) == [Opt("MaxDeliveryAttempts") EXCEPT !.n = n]
MkFilterStreamBySubject(s) == [Opt("FilterStreamBySubject") EXCEPT !.subj = s]
MkBackoffIntervals(i) == [Opt("BackoffIntervals") EXCEPT !.durs = i]
MkBackoffPolicy(p) == [Opt("BackoffPolicy") EXCEPT !.durs = p]

\* what a closure returns: its error, and what it left in the configuration
ok(o) == [err |-> NoErr, cfg |-> o]
fails(e, o) == [err |-> e, cfg |-> o]

\* Each closure body, applied to the configuration o.
ConsumerDescription(d, o) == ok([o EXCEPT !.Description = d])

ConsumerName(s, o) ==
    IF ~IsValidName(s)
    THEN fails(Errorf("is not a valid consumer name", s), o)
    ELSE ok([o EXCEPT !.Name = s])

DurableName(s, o) ==
    IF ~IsValidName(s)
    THEN fails(Errorf("is not a valid consumer name", s), o)
    ELSE ok([o EXCEPT !.Durable = s])

\* (variant: the start sequence is not cleared)
resetDeliverPolicy_keepsStartSeq(o) ==
    [o EXCEPT !.DeliverPolicy = "DeliverAll", !.OptStartTime = Nil]

resetDeliverPolicy(o) ==
    [o EXCEPT !.DeliverPolicy = "DeliverAll", !.OptStartSeq = 0, !.OptStartTime = Nil]

StartAtSequence(s, o) ==
    ok([resetDeliverPolicy(o) EXCEPT !.DeliverPolicy = "DeliverByStartSequence",
                                     !.OptStartSeq = s])

StartAtTime(t, o) ==
    ok([resetDeliverPolicy(o) EXCEPT !.DeliverPolicy = "DeliverByStartTime",
                                     !.OptStartTime = Ptr(UTC(t))])

DeliverAllAvailable(o) ==
    ok([resetDeliverPolicy(o) EXCEPT !.DeliverPolicy = "DeliverAll"])

DeliverLastPerSubject(o) ==
    ok([resetDeliverPolicy(o) EXCEPT !.DeliverPolicy = "DeliverLastPerSubject"])

StartWithLastReceived(o) ==
    ok([resetDeliverPolicy(o) EXCEPT !.DeliverPolicy = "DeliverLast"])

StartWithNextReceived(o) ==
    ok([resetDeliverPolicy(o) EXCEPT !.DeliverPolicy = "DeliverNew"])

\* now is what time.Now() returns when the closure runs
StartAtTimeDelta(d, o, now) ==
    ok([resetDeliverPolicy(o) EXCEPT !.DeliverPolicy = "DeliverByStartTime",
                                     !.OptStartTime = Ptr(AddDuration(UTC(now), (0 - 1) * d))])

\* (variant: no n is rejected)
MaxDeliveryAttempts_acceptsZero(n, o) == ok([o EXCEPT !.MaxDeliver = n])

\* (variant: every n <= 0 is rejected)
MaxDeliveryAttempts_rejectsNonPositive(n, o) ==
    IF n <= 0
    THEN fails(Errorf("configuration would prevent all deliveries", <<>>), o)
    ELSE ok([o EXCEPT !.MaxDeliver = n])

MaxDeliveryAttempts(n, o) ==
    IF n = 0
    THEN fails(Errorf("configuration would prevent all deliveries", <<>>), o)
    ELSE ok([o EXCEPT !.MaxDeliver = n])

\* append(sl, s...): in place when the backing array has room, else a new array
GoAppend(sl, s) ==
    IF sl.len + Len(s) <= Len(sl.arr)
    THEN [arr |-> [i \in 1..Len(sl.arr) |->
                     IF i > sl.len /\ i <= sl.len + Len(s) THEN s[i - sl.len]
                     ELSE sl.arr[i]],
          len |-> sl.len + Len(s)]
    ELSE [arr |-> Elems(sl) \o s, len |-> sl.len + Len(s)]

FilterStreamBySubject(s, o) ==
    IF Len(s) = 1
    THEN ok([o EXCEPT !.FilterSubject = s[1]])
    ELSE ok([o EXCEPT !.FilterSubjects = GoAppend(o.FilterSubjects, s)])

BackoffIntervals(i, o) ==
    IF Len(i) = 0
    THEN fails(Errorf("at least one interval is required", <<>>), o)
    ELSE ok([o EXCEPT !.BackOff = i])

BackoffPolicy(policy, o) == ok([o EXCEPT !.BackOff = policy])

\* err := o(&cfg): the call of an option closure
ApplyOption(opt, o, now) ==
    CASE opt.op = "ConsumerDescription" -> ConsumerDescription(opt.str, o)
      [] opt.op = "ConsumerName" -> ConsumerName(opt.name, o)
      [] opt.op = "DurableName" -> DurableName(opt.name, o)
      [] opt.op = "StartAtSequence" -> StartAtSequence(opt.n, o)
      [] opt.op = "StartAtTime" -> StartAtTime(opt.t, o)
      [] opt.op = "StartAtTimeDelta" -> StartAtTimeDelta(opt.n, o, now)
      [] opt.op = "DeliverAllAvailable" -> DeliverAllAvailable(o)
      [] opt.op = "DeliverLastPerSubject" -> DeliverLastPerSubject(o)
      [] opt.op = "StartWithLastReceived" -> StartWithLastReceived(o)
      [] opt.op = "StartWithNextReceived" -> StartWithNextReceived(o)
      [] opt.op = "MaxDeliveryAttempts" -> MaxDeliveryAttempts(opt.n, o)
      [] opt.op = "FilterStreamBySubject" -> FilterStreamBySubject(opt.subj, o)
      [] opt.op = "BackoffIntervals" -> BackoffIntervals(opt.durs, o)
      [] opt.op = "BackoffPolicy" -> BackoffPolicy(opt.durs, o)

(***************************************************************************)
(* NewConsumerConfiguration.  cfg := dflt copies the template; the copy's  *)
(* FilterSubjects shares the template's backing array until an append      *)
(* allocates a new one, so the loop carries that array (tarr) along.       *)
(* ran, errs and trace record which options ran, what each returned and    *)
(* what each left in cfg.                                                  *)
(***************************************************************************)
\* one turn of the loop: option opts[i] runs on st.cfg
RunOption(st, opt, i, now) ==
    The({ [cfg |-> r.cfg,
           err |-> r.err,
           alias |-> st.alias /\ (r.cfg.FilterSubjects = st.cfg.FilterSubjects
                                  \/ Len(r.cfg.FilterSubjects.arr)
                                        = Len(st.cfg.FilterSubjects.arr)),
           tarr |-> IF st.alias /\ r.cfg.FilterSubjects # st.cfg.FilterSubjects
                       /\ Len(r.cfg.FilterSubjects.arr) = Len(st.cfg.FilterSubjects.arr)
                    THEN r.cfg.FilterSubjects.arr ELSE st.tarr,
           ran |-> i,
           errs |-> Append(st.errs, r.err),
           trace |-> Append(st.trace, r.cfg)] :
          r \in { ApplyOption(opt, st.cfg, now) } })

\* (variant: the loop does not stop at an error)
RECURSIVE RunOptions_continues(_, _, _, _)
RunOptions_continues(st, opts, i, now) ==
    IF i > Len(opts) THEN st
    ELSE RunOptions_continues(RunOption(st, opts[i], i, now), opts, i + 1, now)

\* for _, o := range opts { err := o(&cfg); if err != nil { return nil, err } }
RECURSIVE RunOptions(_, _, _, _)
RunOptions(st, opts, i, now) ==
    IF i > Len(opts) THEN st
    ELSE The({ IF st2.err # NoErr THEN st2 ELSE RunOptions(st2, opts, i + 1, now) :
               st2 \in { RunOption(st, opts[i], i, now) } })

\* (variant: a name already set is kept)
canonicalName_keepsName(cfg, digest) ==
    IF cfg.Name # NoName THEN cfg
    ELSE IF cfg.Durable # NoName THEN [cfg EXCEPT !.Name = cfg.Durable]
    ELSE [cfg EXCEPT !.Name = generateConsName(digest)]

\* if cfg.Durable != "" { cfg.Name = cfg.Durable }; if cfg.Name == "" { generate }
canonicalName(cfg, digest) ==
    IF cfg.Durable # NoName THEN [cfg EXCEPT !.Name = cfg.Durable]
    ELSE IF cfg.Name = NoName THEN [cfg EXCEPT !.Name = generateConsName(digest)]
    ELSE cfg

NewConsumerConfiguration(dflt, opts, now, digest) ==
    The({ [cfg |-> IF st.err # NoErr THEN Nil ELSE Ptr(canonicalName(st.cfg, digest)),
           err |-> st.err, ran |-> st.ran, errs |-> st.errs, trace |-> st.trace,
           tarr |-> st.tarr] :
          st \in { RunOptions([cfg |-> dflt, err |-> NoErr, alias |-> TRUE,
                               tarr |-> dflt.FilterSubjects.arr, ran |-> 0,
                               errs |-> <<>>, trace |-> <<>>],
                              opts, 1, now) } })

(***************************************************************************)
(* The wire and the engine.  A configuration travels as JSON: a slice is   *)
(* encoded as its elements and decoded into a fresh slice.  The engine     *)
(* holds the consumers of one stream, StreamS, as the info records it      *)
(* would return for them.                                                  *)
(***************************************************************************)
StreamS == <<"S">>
BadStream == <<"S", " ">>

Marshal(cfg) == [cfg EXCEPT !.FilterSubjects = Elems(cfg.FilterSubjects)]
Unmarshal(w) == [w EXCEPT !.FilterSubjects = SliceOf(w.FilterSubjects)]

UnmarshalInfo(wi) == [wi EXCEPT !.Config = Unmarshal(wi.Config)]

\* a JSON boolean field declared omitempty: absent decodes to false
DecodeBool(w) == w = "true"

ApiError(code) == [kind |-> "api", code |-> code, msg |-> "", arg |-> <<>>]
ErrTimeout == [kind |-> "transport", code |-> 0, msg |-> "nats: timeout", arg |-> <<>>]
ErrNoResponders ==
    [kind |-> "transport", code |-> 0, msg |-> "nats: no responders", arg |-> <<>>]

IsNatsError(err, code) == err.kind = "api" /\ err.code = code

\* the engine's answer to a request, as the reply message it puts on the wire
WireReply(code, info, success) == [error |-> code, info |-> info, success |-> success]

Lookup(rem, name) == { i \in rem : i.Name = name }

\* the engine fills in its own defaults before it stores and echoes a configuration
EngineDefaults(w) == [w EXCEPT !.MaxDeliver = IF @ = 0 THEN 0 - 1 ELSE @]

EngineInfo(rem, stream, name) ==
    IF stream # StreamS THEN [reply |-> WireReply(Ptr(10059), Nil, "absent"), remote |-> rem]
    ELSE IF Lookup(rem, name) = {}
    THEN [reply |-> WireReply(Ptr(10014), Nil, "absent"), remote |-> rem]
    ELSE [reply |-> WireReply(Nil, Ptr(The(Lookup(rem, name))), "absent"), remote |-> rem]

EngineCreate(rem, req) ==
    IF req.Stream # StreamS
    THEN [reply |-> WireReply(Ptr(10059), Nil, "absent"), remote |-> rem]
    ELSE The({ [reply |-> WireReply(Nil, Ptr(info), "absent"),
                remote |-> (rem \ Lookup(rem, req.Config.Name)) \cup {info}] :
               info \in { [Stream |-> req.Stream, Name |-> req.Config.Name,
                           Config |-> EngineDefaults(req.Config),
                           Delivered |-> IF Lookup(rem, req.Config.Name) = {} THEN 0
                                         ELSE The(Lookup(rem, req.Config.Name)).Delivered] } })

EngineDelete(rem, stream, name) ==
    IF stream # StreamS THEN [reply |-> WireReply(Ptr(10059), Nil, "absent"), remote |-> rem]
    ELSE IF Lookup(rem, name) = {}
    THEN [reply |-> WireReply(Ptr(10014), Nil, "absent"), remote |-> rem]
    ELSE [reply |-> WireReply(Nil, Nil, "true"), remote |-> rem \ Lookup(rem, name)]

EngineStepDown(rem, stream, name) ==
    IF stream # StreamS THEN [reply |-> WireReply(Ptr(10059), Nil, "absent"), remote |-> rem]
    ELSE IF Lookup(rem, name) = {}
    THEN [reply |-> WireReply(Ptr(10014), Nil, "absent"), remote |-> rem]
    ELSE [reply |-> WireReply(Nil, Nil, "true"), remote |-> rem]

InfoFaults == {"none", "timeout", "no_responders", "rejected", "no_record"}
CreateFaults == {"none", "timeout", "rejected", "no_record"}
AckFaults == {"none", "timeout", "rejected", "no_record", "success_false"}

\* what comes back for a request: nothing (terr, a transport failure), or the
\* engine's reply; a fault stands for what the engine or the transport does on
\* its own account
Exchange(rem, subj, body, fault) ==
    CASE fault = "timeout" ->
            [terr |-> ErrTimeout, reply |-> WireReply(Nil, Nil, "absent"), remote |-> rem]
      [] fault = "no_responders" ->
            [terr |-> ErrNoResponders, reply |-> WireReply(Nil, Nil, "absent"), remote |-> rem]
      [] fault = "rejected" ->
            [terr |-> NoErr, reply |-> WireReply(Ptr(10008), Nil, "absent"), remote |-> rem]
      [] fault = "no_record" ->
            [terr |-> NoErr, reply |-> WireReply(Nil, Nil, "absent"), remote |-> rem]
      [] fault = "success_false" ->
            [terr |-> NoErr, reply |-> WireReply(Nil, Nil, "false"), remote |-> rem]
      [] fault = "none" ->
            The({ [terr |-> NoErr, reply |-> e.reply, remote |-> e.remote] :
                  e \in { CASE subj[1] = "CONSUMER.INFO" -> EngineInfo(rem, subj[2], subj[3])
                            [] subj[1] = "CONSUMER.CREATE" -> EngineCreate(rem, body[1])
                            [] subj[1] = "CONSUMER.DELETE" ->
                                   EngineDelete(rem, subj[2], subj[3])
                            [] subj[1] = "CONSUMER.LEADER.STEPDOWN" ->
                                   EngineStepDown(rem, subj[2], subj[3]) } })

(***************************************************************************)
(* The gateway: one request, its reply decoded into the response, a        *)
(* structured error reply turned into an error carrying its code.          *)
(* sent is the entry the request leaves in the log of requests: what was   *)
(* sent, the error that came back and the reply's success field and info   *)
(* record as they were on the wire.                                        *)
(***************************************************************************)
ReplyError(x) ==
    IF x.terr # NoErr THEN x.terr
    ELSE IF x.reply.error # Nil THEN ApiError(x.reply.error[1])
    ELSE NoErr

jsonRequest(rem, subj, body, fault) ==
    The({ [err |-> ReplyError(x),
           ConsumerInfo |-> IF ReplyError(x) = NoErr /\ x.reply.info # Nil
                            THEN Ptr(UnmarshalInfo(x.reply.info[1])) ELSE Nil,
           Success |-> ReplyError(x) = NoErr /\ DecodeBool(x.reply.success),
           sent |-> [subj |-> subj, body |-> body, err |-> ReplyError(x),
                     success |-> x.reply.success, info |-> x.reply.info],
           remote |-> x.remote] :
          x \in { Exchange(rem, subj, body, fault) } })

(***************************************************************************)
(* cfg.Validate(): the configuration validator.                            *)
(***************************************************************************)
Validate(cfg) ==
    LET errs == IF cfg.FilterSubject # "" /\ cfg.FilterSubjects.len > 0
                THEN <<"filter_subject and filter_subjects are mutually exclusive">>
                ELSE <<>>
    IN  [valid |-> errs = <<>>, errs |-> errs]

(***************************************************************************)
(* The Manager's operations.  Each returns what the call returns (ret, a   *)
(* handle or nil; info; err), the requests it sent in order (reqs), the    *)
(* engine's state afterwards (remote), the validated configuration that    *)
(* reached the create step (built), whether the call panicked, the        *)
(* messages it published (pubs) and the message it returns (msg).          *)
(***************************************************************************)
ZeroInfo == [Stream |-> NoName, Name |-> NoName, Config |-> ZeroConfig, Delivered |-> 0]

Outcome(ret, err, reqs, rem) ==
    [ret |-> ret, info |-> ZeroInfo, err |-> err, reqs |-> reqs, remote |-> rem,
     built |-> Nil, panic |-> FALSE, pubs |-> <<>>, msg |-> Nil]

consumerFromCfg(stream, name, cfg) ==
    [name |-> IF name = NoName /\ cfg.Name # NoName THEN cfg.Name ELSE name,
     stream |-> stream, cfg |-> cfg, lastInfo |-> Nil]

\* (variant: the subject never carries the filter)
CreateSubject_nameOnly(req) == <<"CONSUMER.CREATE", req.Stream, req.Config.Name>>

\* subj = fmt.Sprintf(JSApiConsumerCreateWithNameT, ...) or (JSApiConsumerCreateExT, ...)
CreateSubject(req) ==
    IF req.Config.FilterSubject = ""
    THEN <<"CONSUMER.CREATE", req.Stream, req.Config.Name>>
    ELSE <<"CONSUMER.CREATE", req.Stream, req.Config.Name, req.Config.FilterSubject>>

createConsumer(rem, req, fault) ==
    IF req.Config.Name = NoName
    THEN [info |-> Nil, err |-> Errorf("consumer conmfiguration requires a name", <<>>),
          reqs |-> <<>>, remote |-> rem]
    ELSE The({ [info |-> IF r.err # NoErr THEN Nil ELSE r.ConsumerInfo, err |-> r.err,
                reqs |-> <<r.sent>>, remote |-> r.remote] :
               r \in { jsonRequest(rem, CreateSubject(req),
                                   Ptr([Stream |-> req.Stream, Config |-> Marshal(req.Config)]),
                                   fault) } })

\* (variant: the list is not cleared)
SingleFilter_keepsList(cfg) ==
    IF cfg.FilterSubjects.len = 1
    THEN [cfg EXCEPT !.FilterSubject = Elems(cfg.FilterSubjects)[1]]
    ELSE cfg

\* if len(cfg.FilterSubjects) == 1 { cfg.FilterSubject = ...[0]; cfg.FilterSubjects = nil }
SingleFilter(cfg) ==
    IF cfg.FilterSubjects.len = 1
    THEN [cfg EXCEPT !.FilterSubject = Elems(cfg.FilterSubjects)[1],
                     !.FilterSubjects = NilSlice]
    ELSE cfg

\* (variant: the configuration is not validated)
CreateFromConfig_skipsValidate(rem, stream, b, fault) ==
    The({ IF r.err # NoErr
          THEN [Outcome(Nil, r.err, r.reqs, r.remote) EXCEPT !.built = b.cfg]
          ELSE IF r.info = Nil
          THEN [Outcome(Nil, Errorf("expected a consumer name but none were generated",
                                    <<>>), r.reqs, r.remote)
                   EXCEPT !.built = b.cfg]
          ELSE [Outcome(Ptr([consumerFromCfg(stream, r.info[1].Name, r.info[1].Config)
                                EXCEPT !.lastInfo = r.info]),
                        NoErr, r.reqs, r.remote)
                   EXCEPT !.built = b.cfg] :
          r \in { createConsumer(rem, [Stream |-> stream,
                                       Config |-> SingleFilter(b.cfg[1])], fault) } })

\* (variant: the handle is made from the configuration built locally)
CreateFromConfig_localConfig(rem, stream, b, fault) ==
    IF ~Validate(b.cfg[1]).valid
    THEN Outcome(Nil, Errorf("configuration validation failed", Validate(b.cfg[1]).errs),
                 <<>>, rem)
    ELSE The({ IF r.err # NoErr
               THEN [Outcome(Nil, r.err, r.reqs, r.remote) EXCEPT !.built = b.cfg]
               ELSE IF r.info = Nil
               THEN [Outcome(Nil, Errorf("expected a consumer name but none were generated",
                                         <<>>), r.reqs, r.remote)
                        EXCEPT !.built = b.cfg]
               ELSE [Outcome(Ptr([consumerFromCfg(stream, b.cfg[1].Name, b.cfg[1])
                                     EXCEPT !.lastInfo = r.info]),
                             NoErr, r.reqs, r.remote)
                        EXCEPT !.built = b.cfg] :
               r \in { createConsumer(rem, [Stream |-> stream,
                                            Config |-> SingleFilter(b.cfg[1])], fault) } })

\* the part of NewConsumerFromDefault after the configuration b.cfg was built
CreateFromConfig(rem, stream, b, fault) ==
    IF ~Validate(b.cfg[1]).valid
    THEN Outcome(Nil, Errorf("configuration validation failed", Validate(b.cfg[1]).errs),
                 <<>>, rem)
    ELSE The({ IF r.err # NoErr
               THEN [Outcome(Nil, r.err, r.reqs, r.remote) EXCEPT !.built = b.cfg]
               ELSE IF r.info = Nil
               THEN [Outcome(Nil, Errorf("expected a consumer name but none were generated",
                                         <<>>), r.reqs, r.remote)
                        EXCEPT !.built = b.cfg]
               ELSE [Outcome(Ptr([consumerFromCfg(stream, r.info[1].Name, r.info[1].Config)
                                     EXCEPT !.lastInfo = r.info]),
                             NoErr, r.reqs, r.remote)
                        EXCEPT !.built = b.cfg] :
               r \in { createConsumer(rem, [Stream |-> stream,
                                            Config |-> SingleFilter(b.cfg[1])], fault) } })

NewConsumerFromDefault(rem, stream, dflt, opts, now, digest, fault) ==
    IF ~IsValidName(stream)
    THEN Outcome(Nil, Errorf("is not a valid stream name", stream), <<>>, rem)
    ELSE The({ IF b.err # NoErr THEN Outcome(Nil, b.err, <<>>, rem)
               ELSE CreateFromConfig(rem, stream, b, fault) :
               b \in { NewConsumerConfiguration(dflt, opts, now, digest) } })

\* return *resp.ConsumerInfo dereferences a nil pointer when the reply has no record
loadConsumerInfo(rem, s, cn, fault) ==
    The({ IF r.err # NoErr
          THEN [info |-> ZeroInfo, err |-> r.err, panic |-> FALSE, reqs |-> <<r.sent>>,
                remote |-> r.remote]
          ELSE IF r.ConsumerInfo = Nil
          THEN [info |-> ZeroInfo, err |-> NoErr, panic |-> TRUE, reqs |-> <<r.sent>>,
                remote |-> r.remote]
          ELSE [info |-> r.ConsumerInfo[1], err |-> NoErr, panic |-> FALSE,
                reqs |-> <<r.sent>>, remote |-> r.remote] :
          r \in { jsonRequest(rem, <<"CONSUMER.INFO", s, cn>>, Nil, fault) } })

\* (variant: what loadConsumerInfo returned is stored whether it failed or not)
loadConfigForConsumer_storesOnError(rem, consumer, fault) ==
    The({ IF l.panic
          THEN [Outcome(Ptr(consumer), NoErr, l.reqs, l.remote) EXCEPT !.panic = TRUE]
          ELSE Outcome(Ptr([consumer EXCEPT !.cfg = l.info.Config,
                                            !.lastInfo = Ptr(l.info)]),
                       l.err, l.reqs, l.remote) :
          l \in { loadConsumerInfo(rem, consumer.stream, consumer.name, fault) } })

\* ret is the consumer as the call leaves it
loadConfigForConsumer(rem, consumer, fault) ==
    The({ IF l.panic
          THEN [Outcome(Ptr(consumer), NoErr, l.reqs, l.remote) EXCEPT !.panic = TRUE]
          ELSE IF l.err # NoErr THEN Outcome(Ptr(consumer), l.err, l.reqs, l.remote)
          ELSE Outcome(Ptr([consumer EXCEPT !.cfg = l.info.Config,
                                            !.lastInfo = Ptr(l.info)]),
                       NoErr, l.reqs, l.remote) :
          l \in { loadConsumerInfo(rem, consumer.stream, consumer.name, fault) } })

LoadConsumer(rem, stream, name, fault) ==
    IF ~IsValidName(stream)
    THEN Outcome(Nil, Errorf("is not a valid stream name", stream), <<>>, rem)
    ELSE IF ~IsValidName(name)
    THEN Outcome(Nil, Errorf("is not a valid consumer name", name), <<>>, rem)
    ELSE The({ IF l.panic \/ l.err # NoErr THEN [l EXCEPT !.ret = Nil] ELSE l :
               l \in { loadConfigForConsumer(rem, consumerFromCfg(stream, name, ZeroConfig),
                                             fault) } })

\* the create that follows a load answered "not found"; its requests follow the load's
CreateAfterLoad(l, stream, template, opts, now, digest, fault) ==
    The({ [n EXCEPT !.reqs = l.reqs \o n.reqs] :
          n \in { NewConsumerFromDefault(l.remote, stream, template, opts, now, digest,
                                         fault) } })

\* (variant: any error reply of the engine leads to a create)
LoadOrNewConsumerFromDefault_onAnyCode(rem, stream, name, template, opts, now, digest, f1, f2) ==
    IF ~IsValidName(stream)
    THEN Outcome(Nil, Errorf("is not a valid stream name", stream), <<>>, rem)
    ELSE IF ~IsValidName(name)
    THEN Outcome(Nil, Errorf("is not a valid consumer name", name), <<>>, rem)
    ELSE The({ IF l.panic THEN l
               ELSE IF l.err.kind = "api"
               THEN CreateAfterLoad(l, stream, template, opts, now, digest, f2)
               ELSE l :
               l \in { LoadConsumer(rem, stream, name, f1) } })

LoadOrNewConsumerFromDefault(rem, stream, name, template, opts, now, digest, f1, f2) ==
    IF ~IsValidName(stream)
    THEN Outcome(Nil, Errorf("is not a valid stream name", stream), <<>>, rem)
    ELSE IF ~IsValidName(name)
    THEN Outcome(Nil, Errorf("is not a valid consumer name", name), <<>>, rem)
    ELSE The({ IF l.panic THEN l
               ELSE IF IsNatsError(l.err, 10014)
               THEN CreateAfterLoad(l, stream, template, opts, now, digest, f2)
               ELSE l :
               l \in { LoadConsumer(rem, stream, name, f1) } })

(***************************************************************************)
(* The Consumer's operations, on a handle h.  ret is the handle as the     *)
(* call leaves it.                                                         *)
(***************************************************************************)
\* (variant: a handle with a name counts as durable)
IsDurable_byName(h) == h.name # NoName

IsDurable(h) == h.cfg.Durable # NoName

Reset(rem, h, fault) == loadConfigForConsumer(rem, h, fault)

\* return c.Reset(), after the create n succeeded
ResetAfterCreate(n, h, fault) ==
    The({ [r EXCEPT !.reqs = n.reqs \o r.reqs, !.built = n.built] :
          r \in { Reset(n.remote, h, fault) } })

\* NewConsumerFromDefault(c.stream, *ncfg) and what follows it
CreateAndReset(rem, h, ncfg, now, digest, f1, f2) ==
    The({ IF n.err # NoErr THEN [n EXCEPT !.ret = Ptr(h)]
          ELSE ResetAfterCreate(n, h, f2) :
          n \in { NewConsumerFromDefault(rem, h.stream, ncfg, <<>>, now, digest, f1) } })

\* (variant: the options are applied to the default template)
UpdateConfiguration_fromDefault(rem, h, opts, now, digest, f1, f2) ==
    IF ~IsDurable(h)
    THEN Outcome(Ptr(h), Errorf("only durable consumers can be updated", <<>>), <<>>, rem)
    ELSE The({ IF b.err # NoErr THEN Outcome(Ptr(h), b.err, <<>>, rem)
               ELSE CreateAndReset(rem, h, b.cfg[1], now, digest, f1, f2) :
               b \in { NewConsumerConfiguration(DefaultConsumer, opts, now, digest) } })

UpdateConfiguration(rem, h, opts, now, digest, f1, f2) ==
    IF ~IsDurable(h)
    THEN Outcome(Ptr(h), Errorf("only durable consumers can be updated", <<>>), <<>>, rem)
    ELSE The({ IF b.err # NoErr THEN Outcome(Ptr(h), b.err, <<>>, rem)
               ELSE CreateAndReset(rem, h, b.cfg[1], now, digest, f1, f2) :
               b \in { NewConsumerConfiguration(h.cfg, opts, now, digest) } })

State(rem, h, fault) ==
    The({ IF l.panic
          THEN [Outcome(Ptr(h), NoErr, l.reqs, l.remote) EXCEPT !.panic = TRUE]
          ELSE IF l.err # NoErr THEN Outcome(Ptr(h), l.err, l.reqs, l.remote)
          ELSE [Outcome(Ptr([h EXCEPT !.lastInfo = Ptr(l.info)]), NoErr, l.reqs, l.remote)
                   EXCEPT !.info = l.info] :
          l \in { loadConsumerInfo(rem, h.stream, h.name, fault) } })

\* (variant: the cached snapshot is never used)
LatestState_alwaysFetches(rem, h, fault) == State(rem, h, fault)

LatestState(rem, h, fault) ==
    IF h.lastInfo # Nil
    THEN [Outcome(Ptr(h), NoErr, <<>>, rem) EXCEPT !.info = h.lastInfo[1]]
    ELSE State(rem, h, fault)

Configuration(h) == h.cfg

\* (variant: the reply's success flag is not looked at)
Delete_ignoresSuccess(rem, h, fault) ==
    The({ IF r.err # NoErr THEN Outcome(Ptr(h), r.err, <<r.sent>>, r.remote)
          ELSE Outcome(Ptr(h), NoErr, <<r.sent>>, r.remote) :
          r \in { jsonRequest(rem, <<"CONSUMER.DELETE", h.stream, h.name>>, Nil, fault) } })

Delete(rem, h, fault) ==
    The({ IF r.err # NoErr THEN Outcome(Ptr(h), r.err, <<r.sent>>, r.remote)
          ELSE IF r.Success THEN Outcome(Ptr(h), NoErr, <<r.sent>>, r.remote)
          ELSE Outcome(Ptr(h), Errorf("unknown response while removing consumer", h.name),
                       <<r.sent>>, r.remote) :
          r \in { jsonRequest(rem, <<"CONSUMER.DELETE", h.stream, h.name>>, Nil, fault) } })

LeaderStepDown(rem, h, fault) ==
    The({ IF r.err # NoErr THEN Outcome(Ptr(h), r.err, <<r.sent>>, r.remote)
          ELSE IF ~r.Success
          THEN Outcome(Ptr(h), Errorf("unknown error while requesting leader step down",
                                      <<>>), <<r.sent>>, r.remote)
          ELSE Outcome(Ptr(h), NoErr, <<r.sent>>, r.remote) :
          r \in { jsonRequest(rem, <<"CONSUMER.LEADER.STEPDOWN", h.stream, h.name>>, Nil,
                              fault) } })

(***************************************************************************)
(* Pull retrieval.  The transport's request (a reply or an error) and      *)
(* publish (sent or an error) stand for m.request, m.requestWithContext    *)
(* and m.nc.PublishMsg.                                                    *)
(***************************************************************************)
PullFaults == {"none", "timeout"}
ContextFaults == {"none", "timeout", "cancelled"}
PublishFaults == {"none", "closed"}

ErrCancelled == [kind |-> "transport", code |-> 0, msg |-> "context canceled", arg |-> <<>>]
ErrConnectionClosed ==
    [kind |-> "transport", code |-> 0, msg |-> "nats: connection closed", arg |-> <<>>]

\* the engine's answer to a pull: a message of the consumer, or silence
EngineNext(rem, stream, name) ==
    IF stream = StreamS /\ Lookup(rem, name) # {}
    THEN Ptr([Subject |-> <<"data", stream>>, Data |-> "m"])
    ELSE Nil

request(rem, subj, data, fault) ==
    The({ [msg |-> IF fault = "none" THEN m ELSE Nil,
           err |-> IF fault = "cancelled" THEN ErrCancelled
                   ELSE IF fault = "timeout" \/ m = Nil THEN ErrTimeout
                   ELSE NoErr,
           sent |-> [subj |-> subj, body |-> Ptr(data),
                     err |-> IF fault = "cancelled" THEN ErrCancelled
                             ELSE IF fault = "timeout" \/ m = Nil THEN ErrTimeout
                             ELSE NoErr,
                     success |-> "absent", info |-> Nil]] :
          m \in { EngineNext(rem, subj[2], subj[3]) } })

PublishMsg(subj, reply, data, fault) ==
    IF fault = "closed" THEN [err |-> ErrConnectionClosed, pubs |-> <<>>]
    ELSE [err |-> NoErr, pubs |-> <<[subj |-> subj, reply |-> reply, data |-> data]>>]

\* (variant: the names are not validated)
NextSubject_unchecked(stream, consumer) ==
    [subj |-> <<"CONSUMER.MSG.NEXT", stream, consumer>>, err |-> NoErr]

\* func NextSubject(stream, consumer) and m.NextSubject
NextSubject(stream, consumer) ==
    IF ~IsValidName(stream)
    THEN [subj |-> <<>>, err |-> Errorf("is not a valid stream name", stream)]
    ELSE IF ~IsValidName(consumer)
    THEN [subj |-> <<>>, err |-> Errorf("is not a valid consumer name", consumer)]
    ELSE [subj |-> <<"CONSUMER.MSG.NEXT", stream, consumer>>, err |-> NoErr]

\* the request and its result, as NextMsg and NextMsgContext return it
Requested(rem, subj, data, fault) ==
    The({ [Outcome(Nil, r.err, <<r.sent>>, rem) EXCEPT !.msg = IF r.err = NoErr THEN r.msg ELSE Nil] :
          r \in { request(rem, subj, data, fault) } })

NextMsg(rem, conn, stream, consumer, fault) ==
    IF ~conn.UseOldRequestStyle
    THEN Outcome(Nil, Errorf("pull mode requires the use of UseOldRequestStyle() option",
                             <<>>), <<>>, rem)
    ELSE The({ IF s.err # NoErr THEN Outcome(Nil, s.err, <<>>, rem)
               ELSE Requested(rem, s.subj, [Expires |-> "timeout", Batch |-> 1], fault) :
               s \in { NextSubject(stream, consumer) } })

NextMsgRequest(rem, conn, stream, consumer, inbox, req, fault) ==
    The({ IF s.err # NoErr THEN Outcome(Nil, s.err, <<>>, rem)
          ELSE The({ [Outcome(Nil, p.err, <<>>, rem) EXCEPT !.pubs = p.pubs] :
                     p \in { PublishMsg(s.subj, inbox, req, fault) } }) :
          s \in { NextSubject(stream, consumer) } })

NextMsgContext(rem, conn, stream, consumer, fault) ==
    IF ~conn.UseOldRequestStyle
    THEN Outcome(Nil, Errorf("pull mode requires the use of UseOldRequestStyle() option",
                             <<>>), <<>>, rem)
    ELSE The({ IF s.err # NoErr THEN Outcome(Nil, s.err, <<>>, rem)
               ELSE Requested(rem, s.subj, [Expires |-> "context", Batch |-> 1], fault) :
               s \in { NextSubject(stream, consumer) } })

(***************************************************************************)
(* SpecCfg: one call of NewConsumerConfiguration.                          *)
(***************************************************************************)
T1 == Time(5, "Local")
Nows == { Time(10, "Local"), Time(20, "UTC") }

Templates ==
    { DefaultConsumer, SampledDefaultConsumer,
      [DefaultConsumer EXCEPT !.Name = NameA],
      [DefaultConsumer EXCEPT !.Durable = NameB],
      [DefaultConsumer EXCEPT !.Name = NameA, !.Durable = NameB],
      [DefaultConsumer EXCEPT !.DeliverPolicy = "DeliverByStartSequence", !.OptStartSeq = 7],
      [DefaultConsumer EXCEPT !.DeliverPolicy = "DeliverByStartTime", !.OptStartTime = Ptr(T1)],
      [DefaultConsumer EXCEPT !.DeliverPolicy = "DeliverLast", !.OptStartSeq = 7,
                              !.OptStartTime = Ptr(T1)],
      [DefaultConsumer EXCEPT !.MaxDeliver = 5],
      [DefaultConsumer EXCEPT !.FilterSubjects = SliceOf(<<"a">>)],
      [DefaultConsumer EXCEPT !.FilterSubjects = [arr |-> <<"a", "x", "y">>, len |-> 1]] }

CfgOptions ==
    { MkConsumerDescription("d1"), MkConsumerDescription("d2"),
      MkConsumerName(NameA), MkConsumerName(BadName),
      MkDurableName(NameB), MkDurableName(NoName),
      MkStartAtSequence(0), MkStartAtSequence(3),
      MkStartAtTime(T1), MkStartAtTimeDelta(1),
      MkDeliverAllAvailable, MkDeliverLastPerSubject,
      MkStartWithLastReceived, MkStartWithNextReceived,
      MkMaxDeliveryAttempts(0 - 1), MkMaxDeliveryAttempts(0), MkMaxDeliveryAttempts(2),
      MkFilterStreamBySubject(<<>>), MkFilterStreamBySubject(<<"b">>),
      MkFilterStreamBySubject(<<"c", "d">>),
      MkBackoffIntervals(<<>>), MkBackoffIntervals(<<1, 2>>),
      MkBackoffPolicy(<<>>), MkBackoffPolicy(<<5>>) }

RECURSIVE SeqsUpTo(_, _)
SeqsUpTo(S, n) ==
    IF n = 0 THEN { <<>> }
    ELSE LET shorter == SeqsUpTo(S, n - 1)
         IN  shorter \cup { Append(s, x) : s \in shorter, x \in S }

NoResult == [cfg |-> Nil, err |-> NoErr, ran |-> 0, errs |-> <<>>, trace |-> <<>>,
             tarr |-> <<>>]

NoBuild == [called |-> FALSE, dflt |-> ZeroConfig, opts |-> <<>>, now |-> ZeroTime,
            res |-> NoResult]

\* the record of a call, before any call was made
NoCall == [op |-> "none", stream |-> NoName, name |-> NoName, dflt |-> ZeroConfig,
           opts |-> <<>>, pre |-> Nil, preRemote |-> {},
           out |-> Outcome(Nil, NoErr, <<>>, {})]

\* the callers of SpecRace and what each is doing; nothing in the other
\* specifications
Callers == {"t1", "t2"}

Idle == [pc |-> "idle", op |-> "none", opts |-> <<>>, info |-> ZeroInfo, cfg |-> ZeroConfig,
         err |-> NoErr, done |-> 0]

NoThreads == [t \in Callers |-> Idle]

InitCfg ==
    /\ tmpl \in Templates
    /\ build = NoBuild
    /\ remote = {}
    /\ c = Nil
    /\ last = NoCall
    /\ calls = 0
    /\ nc = [UseOldRequestStyle |-> FALSE]
    /\ mu = "free"
    /\ thr = NoThreads

\* cfg, err := NewConsumerConfiguration(tmpl, opts...)
CallNewConsumerConfiguration ==
    /\ ~build.called
    /\ \E opts \in SeqsUpTo(CfgOptions, MaxOpts), now \in Nows, digest \in Digests :
          \E res \in { NewConsumerConfiguration(tmpl, opts, now, digest) } :
              /\ build' = [called |-> TRUE, dflt |-> tmpl, opts |-> opts, now |-> now,
                           res |-> res]
              /\ tmpl' = [tmpl EXCEPT !.FilterSubjects.arr = res.tarr]
    /\ UNCHANGED <<remote, c, last, calls, nc, mu, thr>>

NextCfg == CallNewConsumerConfiguration

SpecCfg == InitCfg /\ [][NextCfg]_vars

(***************************************************************************)
(* The engine's state when the Manager is constructed: any of these.       *)
(***************************************************************************)
InfoA == [Stream |-> StreamS, Name |-> NameA,
          Config |-> Marshal([DefaultConsumer EXCEPT !.Name = NameA, !.Durable = NameA,
                                                     !.MaxDeliver = 0 - 1]),
          Delivered |-> 0]
InfoB == [Stream |-> StreamS, Name |-> NameB,
          Config |-> Marshal([DefaultConsumer EXCEPT !.Name = NameB, !.MaxDeliver = 0 - 1,
                                                     !.FilterSubject = "a"]),
          Delivered |-> 0]

InitRemotes == { {}, {InfoA}, {InfoA, InfoB} }

\* the effect of a call on the state: the engine as the call left it, the
\* handle the caller now holds, and the record of the call
Called(op, stream, name, dflt, opts, out, newc) ==
    /\ last' = [op |-> op, stream |-> stream, name |-> name, dflt |-> dflt, opts |-> opts,
                pre |-> c, preRemote |-> remote, out |-> out]
    /\ remote' = out.remote
    /\ c' = newc
    /\ calls' = calls + 1
    /\ UNCHANGED <<tmpl, build, nc, mu, thr>>

Kept(out) == IF out.ret # Nil THEN out.ret ELSE c

(***************************************************************************)
(* SpecMgr: one call of a Manager operation, on any engine state.          *)
(***************************************************************************)
MgrTemplates ==
    { DefaultConsumer,
      [DefaultConsumer EXCEPT !.FilterSubjects = SliceOf(<<"a">>)],
      [DefaultConsumer EXCEPT !.Name = NameB] }

MgrOptSeqs ==
    { <<>>,
      <<MkDurableName(NameA)>>, <<MkDurableName(NameB)>>, <<MkConsumerName(NameA)>>,
      <<MkMaxDeliveryAttempts(0)>>, <<MkMaxDeliveryAttempts(2)>>,
      <<MkFilterStreamBySubject(<<"b">>)>>, <<MkFilterStreamBySubject(<<"b", "c">>)>>,
      <<MkDurableName(NameA), MkFilterStreamBySubject(<<"b">>)>>,
      <<MkDurableName(BadName)>> }

InitMgr ==
    /\ tmpl = ZeroConfig
    /\ build = NoBuild
    /\ remote \in InitRemotes
    /\ c = Nil
    /\ last = NoCall
    /\ calls = 0
    /\ nc \in { [UseOldRequestStyle |-> b] : b \in BOOLEAN }
    /\ mu = "free"
    /\ thr = NoThreads

MgrNewConsumerFromDefault ==
    /\ calls = 0
    /\ \E stream \in {StreamS, BadStream}, dflt \in MgrTemplates, opts \in MgrOptSeqs,
          digest \in Digests, fault \in CreateFaults :
          \E out \in { NewConsumerFromDefault(remote, stream, dflt, opts, ZeroTime, digest, fault) } :
              Called("NewConsumerFromDefault", stream, NoName, dflt, opts, out, Kept(out))

MgrLoadConsumer ==
    /\ calls = 0
    /\ \E stream \in {StreamS, BadStream}, name \in {NameA, NameB, BadName},
          fault \in InfoFaults :
          \E out \in { LoadConsumer(remote, stream, name, fault) } :
              Called("LoadConsumer", stream, name, ZeroConfig, <<>>, out, Kept(out))

MgrLoadOrNewConsumerFromDefault ==
    /\ calls = 0
    /\ \E stream \in {StreamS, BadStream}, name \in {NameA, NameB, BadName},
          template \in MgrTemplates, opts \in MgrOptSeqs, digest \in Digests,
          f1 \in InfoFaults, f2 \in CreateFaults :
          \E out \in { LoadOrNewConsumerFromDefault(remote, stream, name, template, opts,
                                                  ZeroTime, digest, f1, f2) } :
              Called("LoadOrNewConsumerFromDefault", stream, name, template, opts, out,
                     Kept(out))

PullRequests == { [Batch |-> 1, NoWait |-> FALSE], [Batch |-> 2, NoWait |-> TRUE] }

MgrNextMsg ==
    /\ calls = 0
    /\ \E stream \in {StreamS, BadStream}, name \in {NameA, NameB, BadName},
          fault \in PullFaults :
          \E out \in { NextMsg(remote, nc, stream, name, fault) } :
              Called("NextMsg", stream, name, ZeroConfig, <<>>, out, c)

MgrNextMsgRequest ==
    /\ calls = 0
    /\ \E stream \in {StreamS, BadStream}, name \in {NameA, NameB, BadName},
          req \in PullRequests, fault \in PublishFaults :
          \E out \in { NextMsgRequest(remote, nc, stream, name, <<"inbox">>, req, fault) } :
              Called("NextMsgRequest", stream, name, ZeroConfig, <<>>, out, c)

MgrNextMsgContext ==
    /\ calls = 0
    /\ \E stream \in {StreamS, BadStream}, name \in {NameA, NameB, BadName},
          fault \in ContextFaults :
          \E out \in { NextMsgContext(remote, nc, stream, name, fault) } :
              Called("NextMsgContext", stream, name, ZeroConfig, <<>>, out, c)

\* info, err := m.createConsumer(req)
MgrCreateConsumer ==
    /\ calls = 0
    /\ \E stream \in {StreamS, BadStream}, name \in {NoName, NameA},
          filter \in {"", "a"}, fault \in CreateFaults :
          \E r \in { createConsumer(remote,
                                    [Stream |-> stream,
                                     Config |-> [DefaultConsumer EXCEPT !.Name = name,
                                                    !.FilterSubject = filter]],
                                    fault) } :
              Called("createConsumer", stream, name, DefaultConsumer, <<>>,
                     [Outcome(Nil, r.err, r.reqs, r.remote)
                        EXCEPT !.info = IF r.info = Nil THEN ZeroInfo ELSE r.info[1]],
                     c)

NextMgr ==
    \/ MgrCreateConsumer
    \/ MgrNewConsumerFromDefault
    \/ MgrLoadConsumer
    \/ MgrLoadOrNewConsumerFromDefault
    \/ MgrNextMsg
    \/ MgrNextMsgRequest
    \/ MgrNextMsgContext

SpecMgr == InitMgr /\ [][NextMgr]_vars

(***************************************************************************)
(* Spec: a caller obtains a handle and uses it, call after call, while     *)
(* other clients of the engine change its consumers.                       *)
(***************************************************************************)
HOptSeqs == { <<>>, <<MkDurableName(NameA)>>,
              <<MkDurableName(NameB), MkConsumerDescription("d1")>> }

UOptSeqs ==
    { <<MkConsumerDescription("d2"), MkMaxDeliveryAttempts(2)>>,
      <<MkMaxDeliveryAttempts(0)>>, <<MkDurableName(NameB)>>,
      <<MkFilterStreamBySubject(<<"b">>)>> }

HInfoFaults == {"none", "timeout", "no_record"}
HCreateFaults == {"none", "rejected"}
HDigest == CHOOSE d \in Digests : TRUE

Init ==
    /\ tmpl = ZeroConfig
    /\ build = NoBuild
    /\ remote \in { {}, {InfoA, InfoB} }
    /\ c = Nil
    /\ last = NoCall
    /\ calls = 0
    /\ nc = [UseOldRequestStyle |-> TRUE]
    /\ mu = "free"
    /\ thr = NoThreads

CallNewConsumerFromDefault ==
    /\ calls < MaxCalls
    /\ \E opts \in HOptSeqs, fault \in {"none", "rejected"} :
          \E out \in { NewConsumerFromDefault(remote, StreamS, DefaultConsumer, opts,
                                              ZeroTime, HDigest, fault) } :
              Called("NewConsumerFromDefault", StreamS, NoName, DefaultConsumer, opts, out,
                     Kept(out))

CallLoadConsumer ==
    /\ calls < MaxCalls
    /\ \E name \in {NameA, NameB}, fault \in {"none", "timeout"} :
          \E out \in { LoadConsumer(remote, StreamS, name, fault) } :
              Called("LoadConsumer", StreamS, name, ZeroConfig, <<>>, out, Kept(out))

CallUpdateConfiguration ==
    /\ calls < MaxCalls
    /\ c # Nil
    /\ \E opts \in UOptSeqs, f1 \in HCreateFaults, f2 \in {"none", "timeout"} :
          \E out \in { UpdateConfiguration(remote, c[1], opts, ZeroTime, HDigest, f1, f2) } :
              Called("UpdateConfiguration", c[1].stream, c[1].name, c[1].cfg, opts, out,
                     out.ret)

CallReset ==
    /\ calls < MaxCalls
    /\ c # Nil
    /\ \E fault \in HInfoFaults :
          \E out \in { Reset(remote, c[1], fault) } :
              Called("Reset", c[1].stream, c[1].name, ZeroConfig, <<>>, out, out.ret)

CallState ==
    /\ calls < MaxCalls
    /\ c # Nil
    /\ \E fault \in HInfoFaults :
          \E out \in { State(remote, c[1], fault) } :
              Called("State", c[1].stream, c[1].name, ZeroConfig, <<>>, out, out.ret)

CallLatestState ==
    /\ calls < MaxCalls
    /\ c # Nil
    /\ \E fault \in HInfoFaults :
          \E out \in { LatestState(remote, c[1], fault) } :
              Called("LatestState", c[1].stream, c[1].name, ZeroConfig, <<>>, out, out.ret)

CallDelete ==
    /\ calls < MaxCalls
    /\ c # Nil
    /\ \E fault \in AckFaults :
          \E out \in { Delete(remote, c[1], fault) } :
              Called("Delete", c[1].stream, c[1].name, ZeroConfig, <<>>, out, out.ret)

CallLeaderStepDown ==
    /\ calls < MaxCalls
    /\ c # Nil
    /\ \E fault \in AckFaults :
          \E out \in { LeaderStepDown(remote, c[1], fault) } :
              Called("LeaderStepDown", c[1].stream, c[1].name, ZeroConfig, <<>>, out, out.ret)

\* another client of the engine updates a consumer's configuration
OtherClientUpdates ==
    /\ c # Nil
    /\ \E i \in Lookup(remote, c[1].name) :
          /\ i.Config.Description # "ext"
          /\ remote' = (remote \ {i}) \cup {[i EXCEPT !.Config.Description = "ext"]}
    /\ UNCHANGED <<tmpl, build, c, last, calls, nc, mu, thr>>

Next ==
    \/ CallNewConsumerFromDefault
    \/ CallLoadConsumer
    \/ CallUpdateConfiguration
    \/ CallReset
    \/ CallState
    \/ CallLatestState
    \/ CallDelete
    \/ CallLeaderStepDown
    \/ OtherClientUpdates

Spec == Init /\ [][Next]_vars

(***************************************************************************)
(* SpecRace: two callers share one handle, loaded for the durable consumer *)
(* A.  A caller at pc "reset_wcfg" is at the statement that writes c.cfg,  *)
(* and so on: every access to a cached field, every Lock and Unlock and    *)
(* every request is one step.                                              *)
(***************************************************************************)
MaxThreadOps == 1

RaceOps == {"Reset", "State", "LatestState", "Configuration", "IsDurable",
            "UpdateConfiguration"}

RaceOptSeqs == { <<MkConsumerDescription("d2")>>, <<MkMaxDeliveryAttempts(0)>> }

FirstPc(op) ==
    CASE op = "Reset" -> "reset_fetch"
      [] op = "State" -> "state_fetch"
      [] op = "LatestState" -> "latest_lock"
      [] op = "Configuration" -> "conf_rcfg"
      [] op = "IsDurable" -> "dur_rcfg"
      [] op = "UpdateConfiguration" -> "upd_rdur"

InitRace ==
    /\ tmpl = ZeroConfig
    /\ build = NoBuild
    /\ remote = {InfoA, InfoB}
    /\ c = LoadConsumer({InfoA, InfoB}, StreamS, NameA, "none").ret
    /\ last = NoCall
    /\ calls = 0
    /\ nc = [UseOldRequestStyle |-> TRUE]
    /\ mu = "free"
    /\ thr = NoThreads

\* the operation of caller t has returned
Returned(t, err) ==
    [thr EXCEPT ![t].pc = "idle", ![t].err = err, ![t].done = @ + 1]

\* a caller calls an operation of the handle
CallerStarts(t) ==
    /\ thr[t].pc = "idle"
    /\ thr[t].done < MaxThreadOps
    /\ \E op \in RaceOps, opts \in RaceOptSeqs :
          thr' = [thr EXCEPT ![t] = [Idle EXCEPT !.pc = FirstPc(op), !.op = op,
                                                 !.opts = opts, !.done = thr[t].done]]
    /\ UNCHANGED <<tmpl, build, remote, c, last, calls, nc, mu>>

\* info, err := m.loadConsumerInfo(...) in loadConfigForConsumer and in State;
\* last keeps the most recent fetch that the engine answered with a record
CallerFetches(t) ==
    /\ thr[t].pc \in {"reset_fetch", "state_fetch"}
    /\ \E fault \in {"none", "timeout"} :
          \E l \in { loadConsumerInfo(remote, c[1].stream, c[1].name, fault) } :
              /\ thr' = IF l.err # NoErr THEN Returned(t, l.err)
                        ELSE [thr EXCEPT ![t].info = l.info,
                                         ![t].pc = IF thr[t].pc = "reset_fetch"
                                                   THEN "reset_lock" ELSE "state_lock"]
              /\ last' = IF l.err # NoErr THEN last
                         ELSE [NoCall EXCEPT !.op = "loadConsumerInfo",
                                             !.stream = c[1].stream, !.name = c[1].name,
                                             !.out = [Outcome(Nil, NoErr, l.reqs, l.remote)
                                                         EXCEPT !.info = l.info]]
    /\ UNCHANGED <<tmpl, build, remote, c, calls, nc, mu>>

\* c.Lock()
CallerLocks(t) ==
    /\ thr[t].pc \in {"reset_lock", "state_lock", "latest_lock"}
    /\ mu = "free"
    /\ mu' = t
    /\ thr' = [thr EXCEPT ![t].pc = CASE thr[t].pc = "reset_lock" -> "reset_wcfg"
                                      [] thr[t].pc = "state_lock" -> "state_winfo"
                                      [] thr[t].pc = "latest_lock" -> "latest_rinfo"]
    /\ UNCHANGED <<tmpl, build, remote, c, last, calls, nc>>

\* consumer.cfg = &info.Config
CallerWritesCfg(t) ==
    /\ thr[t].pc = "reset_wcfg"
    /\ c' = Ptr([c[1] EXCEPT !.cfg = thr[t].info.Config])
    /\ thr' = [thr EXCEPT ![t].pc = "reset_winfo"]
    /\ UNCHANGED <<tmpl, build, remote, last, calls, nc, mu>>

\* consumer.lastInfo = &info, c.lastInfo = &s
CallerWritesInfo(t) ==
    /\ thr[t].pc \in {"reset_winfo", "state_winfo"}
    /\ c' = Ptr([c[1] EXCEPT !.lastInfo = Ptr(thr[t].info)])
    /\ thr' = [thr EXCEPT ![t].pc = IF thr[t].pc = "reset_winfo"
                                    THEN "reset_unlock" ELSE "state_unlock"]
    /\ UNCHANGED <<tmpl, build, remote, last, calls, nc, mu>>

\* s := c.lastInfo in LatestState
CallerReadsInfo(t) ==
    /\ thr[t].pc = "latest_rinfo"
    /\ thr' = [thr EXCEPT ![t].info = IF c[1].lastInfo = Nil THEN ZeroInfo
                                      ELSE c[1].lastInfo[1],
                          ![t].pc = IF c[1].lastInfo = Nil THEN "latest_unlock_nil"
                                    ELSE "latest_unlock"]
    /\ UNCHANGED <<tmpl, build, remote, c, last, calls, nc, mu>>

\* c.Unlock(); LatestState goes on to State when it found no snapshot
CallerUnlocks(t) ==
    /\ thr[t].pc \in {"reset_unlock", "state_unlock", "latest_unlock", "latest_unlock_nil"}
    /\ mu = t
    /\ mu' = "free"
    /\ thr' = IF thr[t].pc = "latest_unlock_nil"
              THEN [thr EXCEPT ![t].pc = "state_fetch"]
              ELSE Returned(t, NoErr)
    /\ UNCHANGED <<tmpl, build, remote, c, last, calls, nc>>

\* return *c.cfg in Configuration, c.cfg.Durable != "" in IsDurable, and the
\* two reads of UpdateConfiguration: c.IsDurable() and *c.cfg
CallerReadsCfg(t) ==
    /\ thr[t].pc \in {"conf_rcfg", "dur_rcfg", "upd_rdur", "upd_rcfg"}
    /\ thr' = CASE thr[t].pc \in {"conf_rcfg", "dur_rcfg"} ->
                      [Returned(t, NoErr) EXCEPT ![t].cfg = Configuration(c[1])]
                [] thr[t].pc = "upd_rdur" ->
                      IF IsDurable(c[1]) THEN [thr EXCEPT ![t].pc = "upd_rcfg"]
                      ELSE Returned(t, Errorf("only durable consumers can be updated",
                                              <<>>))
                [] thr[t].pc = "upd_rcfg" ->
                      The({ IF b.err # NoErr THEN Returned(t, b.err)
                            ELSE [thr EXCEPT ![t].cfg = b.cfg[1], ![t].pc = "upd_create"] :
                            b \in { NewConsumerConfiguration(c[1].cfg, thr[t].opts,
                                                             ZeroTime, HDigest) } })
    /\ UNCHANGED <<tmpl, build, remote, c, last, calls, nc, mu>>

\* _, err = c.mgr.NewConsumerFromDefault(c.stream, *ncfg) in UpdateConfiguration
CallerCreates(t) ==
    /\ thr[t].pc = "upd_create"
    /\ \E fault \in {"none", "rejected"} :
          \E n \in { NewConsumerFromDefault(remote, c[1].stream, thr[t].cfg, <<>>, ZeroTime,
                                            HDigest, fault) } :
              /\ remote' = n.remote
              /\ thr' = IF n.err # NoErr THEN Returned(t, n.err)
                        ELSE [thr EXCEPT ![t].pc = "reset_fetch"]
    /\ UNCHANGED <<tmpl, build, c, last, calls, nc, mu>>

\* another client of the engine updates the consumer
RaceOtherClientUpdates ==
    /\ \E i \in Lookup(remote, c[1].name) :
          /\ i.Config.Description # "ext"
          /\ remote' = (remote \ {i}) \cup {[i EXCEPT !.Config.Description = "ext"]}
    /\ UNCHANGED <<tmpl, build, c, last, calls, nc, mu, thr>>

NextRace ==
    \/ \E t \in Callers : CallerStarts(t)
    \/ \E t \in Callers : CallerFetches(t)
    \/ \E t \in Callers : CallerLocks(t)
    \/ \E t \in Callers : CallerWritesCfg(t)
    \/ \E t \in Callers : CallerWritesInfo(t)
    \/ \E t \in Callers : CallerReadsInfo(t)
    \/ \E t \in Callers : CallerUnlocks(t)
    \/ \E t \in Callers : CallerReadsCfg(t)
    \/ \E t \in Callers : CallerCreates(t)
    \/ RaceOtherClientUpdates

SpecRace == InitRace /\ [][NextRace]_vars

(***************************************************************************)
(* Properties of NewConsumerConfiguration, checked under SpecCfg.          *)
(***************************************************************************)
StartOps == {"StartAtSequence", "StartAtTime", "StartAtTimeDelta", "DeliverAllAvailable",
             "DeliverLastPerSubject", "StartWithLastReceived", "StartWithNextReceived"}

HasStart(opts) == \E k \in 1..Len(opts) : opts[k].op \in StartOps

LastStart(opts) ==
    CHOOSE k \in 1..Len(opts) :
        opts[k].op \in StartOps /\ \A j \in (k + 1)..Len(opts) : opts[j].op \notin StartOps

PolicyOf(op) ==
    CASE op = "StartAtSequence" -> "DeliverByStartSequence"
      [] op = "StartAtTime" -> "DeliverByStartTime"
      [] op = "StartAtTimeDelta" -> "DeliverByStartTime"
      [] op = "DeliverAllAvailable" -> "DeliverAll"
      [] op = "DeliverLastPerSubject" -> "DeliverLastPerSubject"
      [] op = "StartWithLastReceived" -> "DeliverLast"
      [] op = "StartWithNextReceived" -> "DeliverNew"

Built == build.called /\ build.res.err = NoErr

\* C1: when NewConsumerConfiguration succeeds on a sequence holding a
\* delivery-start option, the delivery origin of the result is that of the last
\* such option alone: its policy, a start sequence only from StartAtSequence
\* (its argument), a start time only from StartAtTime (the instant given, in UTC)
\* or StartAtTimeDelta (now minus the delta); whatever the template or an earlier
\* option had put in OptStartSeq or OptStartTime is gone.
C1_LastStartOptionWins ==
    (Built /\ HasStart(build.opts)) =>
        LET o == build.opts[LastStart(build.opts)]
            cfg == build.res.cfg[1]
        IN  /\ cfg.DeliverPolicy = PolicyOf(o.op)
            /\ cfg.OptStartSeq = (IF o.op = "StartAtSequence" THEN o.n ELSE 0)
            /\ cfg.OptStartTime =
                  (IF o.op = "StartAtTime" THEN Ptr(Time(o.t.inst, "UTC"))
                   ELSE IF o.op = "StartAtTimeDelta"
                   THEN Ptr(Time(build.now.inst - o.n, "UTC"))
                   ELSE Nil)

\* a template with a start sequence and a start time, StartAtSequence(3) and then
\* StartWithLastReceived: neither start value survives
C1_Witness ==
    /\ Built
    /\ build.dflt.OptStartSeq = 7 /\ build.dflt.OptStartTime # Nil
    /\ Len(build.opts) = 2
    /\ build.opts[1] = MkStartAtSequence(3)
    /\ build.opts[2] = MkStartWithLastReceived
    /\ build.res.cfg[1].DeliverPolicy = "DeliverLast"
    /\ build.res.cfg[1].OptStartSeq = 0
    /\ build.res.cfg[1].OptStartTime = Nil

\* C7: a configuration NewConsumerConfiguration returns has a name, and the name
\* is the durable name whenever there is one, whatever the template's Name and
\* the order of ConsumerName and DurableName.
C7_NameIsDurable ==
    Built =>
        /\ build.res.cfg[1].Name # NoName
        /\ build.res.cfg[1].Durable # NoName
              => build.res.cfg[1].Name = build.res.cfg[1].Durable

\* DurableName(B) and then ConsumerName(A): the name is B
C7_Witness ==
    /\ Built
    /\ build.opts = <<MkDurableName(NameB), MkConsumerName(NameA)>>
    /\ build.res.cfg[1].Name = NameB

\* C8: when an option returns an error the construction stops there: the options
\* before it returned nil, none after it ran, no configuration is returned, the
\* error returned is that option's, and the caller's template reads as before.
\* When no error is returned every option ran and returned nil.
C8_FirstErrorAborts ==
    build.called =>
        /\ Len(build.res.errs) = build.res.ran
        /\ Len(build.res.trace) = build.res.ran
        /\ \A j \in 1..(build.res.ran - 1) : build.res.errs[j] = NoErr
        /\ CfgView(tmpl) = CfgView(build.dflt)
        /\ IF build.res.err # NoErr
           THEN /\ build.res.ran \in 1..Len(build.opts)
                /\ build.res.errs[build.res.ran] = build.res.err
                /\ build.res.cfg = Nil
           ELSE /\ build.res.ran = Len(build.opts)
                /\ \A j \in 1..build.res.ran : build.res.errs[j] = NoErr
                /\ build.res.cfg # Nil

\* the first of two options fails and the second never runs
C8_Witness ==
    /\ build.called
    /\ build.res.err # NoErr
    /\ Len(build.opts) = 2
    /\ build.res.ran = 1
    /\ build.res.cfg = Nil

\* C9: MaxDeliveryAttempts(n) returns an error exactly when n = 0, and then
\* leaves MaxDeliver as it was; for any other n it sets MaxDeliver to n.
C9_RejectsExactlyZero ==
    build.called =>
        \A i \in 1..build.res.ran :
            build.opts[i].op = "MaxDeliveryAttempts" =>
                LET before == IF i = 1 THEN build.dflt ELSE build.res.trace[i - 1]
                    n == build.opts[i].n
                IN  /\ (build.res.errs[i] # NoErr) <=> (n = 0)
                    /\ n = 0 => build.res.trace[i].MaxDeliver = before.MaxDeliver
                    /\ n # 0 => build.res.trace[i].MaxDeliver = n

\* a negative n is accepted, over a template that had MaxDeliver = 5
C9_Witness ==
    /\ Built
    /\ build.dflt.MaxDeliver = 5
    /\ build.opts = <<MkMaxDeliveryAttempts(0 - 1)>>
    /\ build.res.cfg[1].MaxDeliver = 0 - 1

(***************************************************************************)
(* Properties of the Manager's operations, checked under SpecMgr.          *)
(***************************************************************************)
IsInfoRequest(r, stream, name) == r.subj = <<"CONSUMER.INFO", stream, name>>
IsCreateRequest(r) == r.subj[1] = "CONSUMER.CREATE"

LoadOrNewCalled ==
    /\ last.op = "LoadOrNewConsumerFromDefault"
    /\ IsValidName(last.stream)
    /\ IsValidName(last.name)

\* the consumer asked for does not exist and the engine said so
AnsweredNotFound ==
    /\ LoadOrNewCalled
    /\ Lookup(last.preRemote, last.name) = {}
    /\ Len(last.out.reqs) >= 1
    /\ IsNatsError(last.out.reqs[1].err, 10014)

\* the template and the options give a configuration, and it passes Validate
CanBuild(dflt, opts) ==
    LET b == NewConsumerConfiguration(dflt, opts, ZeroTime, HDigest)
    IN  b.err = NoErr /\ Validate(b.cfg[1]).valid

\* every name an option carries is a valid name
OptionNamesValid(opts) ==
    \A i \in 1..Len(opts) :
        opts[i].op \in {"ConsumerName", "DurableName"} => IsValidName(opts[i].name)

\* C2 as stated: LoadOrNewConsumerFromDefault with valid names (stream, consumer
\* and those in the options), for a consumer the engine does not have, sends one
\* info request, answered 10014, and then one create request, and nothing else.
C2_InfoThenCreate ==
    (AnsweredNotFound /\ OptionNamesValid(last.opts)) =>
        /\ Len(last.out.reqs) = 2
        /\ IsInfoRequest(last.out.reqs[1], last.stream, last.name)
        /\ IsCreateRequest(last.out.reqs[2])

\* C2, amended: LoadOrNewConsumerFromDefault with valid names sends an info
\* request for the consumer first; when that is answered 10014 for a consumer the
\* engine does not have, one create request follows and nothing else if the
\* template and options build a configuration that passes Validate, and otherwise
\* the info request is the only request and an error and no handle are returned.
C2_InfoThenCreateIfBuilt ==
    /\ LoadOrNewCalled =>
          /\ Len(last.out.reqs) >= 1
          /\ IsInfoRequest(last.out.reqs[1], last.stream, last.name)
    /\ AnsweredNotFound =>
          IF CanBuild(last.dflt, last.opts)
          THEN /\ Len(last.out.reqs) = 2
               /\ IsCreateRequest(last.out.reqs[2])
          ELSE /\ Len(last.out.reqs) = 1
               /\ last.out.ret = Nil
               /\ last.out.err # NoErr

\* not found, then created: two requests and a handle
C2_Witness ==
    /\ AnsweredNotFound
    /\ CanBuild(last.dflt, last.opts)
    /\ Len(last.out.reqs) = 2
    /\ last.out.reqs[2].err = NoErr
    /\ last.out.ret # Nil

\* C3: in LoadOrNewConsumerFromDefault a load that fails with anything but code
\* 10014 ends the call: that error is returned as it is, with no handle, and
\* no create request is sent; a load that succeeds ends it too, with the loaded
\* handle and no create request.
C3_LoadOutcomeReturned ==
    (LoadOrNewCalled /\ Len(last.out.reqs) >= 1 /\ ~last.out.panic) =>
        LET e == last.out.reqs[1].err
        IN  /\ (e # NoErr /\ ~IsNatsError(e, 10014)) =>
                  /\ last.out.err = e
                  /\ last.out.ret = Nil
                  /\ Len(last.out.reqs) = 1
                  /\ last.out.remote = last.preRemote
            /\ e = NoErr =>
                  /\ last.out.err = NoErr
                  /\ Len(last.out.reqs) = 1
                  /\ last.out.remote = last.preRemote
                  /\ last.out.ret # Nil
                  /\ last.out.ret[1].stream = last.stream
                  /\ last.out.ret[1].name = last.name
                  /\ Lookup(last.preRemote, last.name) # {}
                  /\ last.out.ret[1].lastInfo =
                        Ptr(UnmarshalInfo(The(Lookup(last.preRemote, last.name))))
                  /\ last.out.ret[1].cfg =
                        Unmarshal(The(Lookup(last.preRemote, last.name)).Config)

\* the engine rejects the info request with another code, for a consumer it does
\* not have and a template that could have been created
C3_Witness ==
    /\ LoadOrNewCalled
    /\ Lookup(last.preRemote, last.name) = {}
    /\ CanBuild(last.dflt, last.opts)
    /\ Len(last.out.reqs) = 1
    /\ last.out.reqs[1].err = ApiError(10008)
    /\ last.out.err = ApiError(10008)
    /\ last.out.ret = Nil

\* C10: the create request of NewConsumerFromDefault carries a validated
\* configuration with exactly one element in FilterSubjects as that element in
\* FilterSubject and no FilterSubjects; with none, or with two or more, both
\* filter fields go out as they are.
C10_SingleFilterSentAsScalar ==
    (last.op \in {"NewConsumerFromDefault", "LoadOrNewConsumerFromDefault"}
       /\ last.out.built # Nil) =>
        /\ Len(last.out.reqs) >= 1
        /\ IsCreateRequest(last.out.reqs[Len(last.out.reqs)])
        /\ LET v == last.out.built[1]
               sent == last.out.reqs[Len(last.out.reqs)].body[1].Config
           IN  IF v.FilterSubjects.len = 1
               THEN /\ sent.FilterSubject = Elems(v.FilterSubjects)[1]
                    /\ sent.FilterSubjects = <<>>
               ELSE /\ sent.FilterSubject = v.FilterSubject
                    /\ sent.FilterSubjects = Elems(v.FilterSubjects)

\* a template with the one filter subject "a" is sent with FilterSubject "a"
C10_Witness ==
    /\ last.op = "NewConsumerFromDefault"
    /\ last.out.built # Nil
    /\ Elems(last.out.built[1].FilterSubjects) = <<"a">>
    /\ last.out.built[1].FilterSubject = ""
    /\ Len(last.out.reqs) = 1
    /\ last.out.reqs[1].body[1].Config.FilterSubject = "a"
    /\ last.out.reqs[1].body[1].Config.FilterSubjects = <<>>

(***************************************************************************)
(* Properties of the Consumer's operations, checked under Spec.            *)
(***************************************************************************)
\* C4: UpdateConfiguration on a handle whose configuration has no durable name
\* returns the "only durable consumers can be updated" error, sends nothing,
\* and leaves the handle (configuration and snapshot) and the engine as they were.
C4_UpdateNeedsDurable ==
    (last.op = "UpdateConfiguration" /\ last.pre[1].cfg.Durable = NoName) =>
        /\ last.out.err = Errorf("only durable consumers can be updated", <<>>)
        /\ last.out.reqs = <<>>
        /\ last.out.built = Nil
        /\ last.out.ret = last.pre
        /\ c = last.pre
        /\ last.out.remote = last.preRemote

\* an update with options on the handle of a consumer without a durable name
C4_Witness ==
    /\ last.op = "UpdateConfiguration"
    /\ last.pre[1].cfg.Durable = NoName
    /\ last.pre[1].name # NoName
    /\ Len(last.opts) = 2
    /\ last.out.err # NoErr
    /\ c = last.pre

\* C5: Delete and LeaderStepDown return nil exactly when the request came back
\* without an error and the reply's success field is true; a reply without an
\* error whose success is false or missing gives an error.
C5_NilIffSuccess ==
    (last.op \in {"Delete", "LeaderStepDown"}) =>
        /\ Len(last.out.reqs) = 1
        /\ (last.out.err = NoErr) <=>
              (last.out.reqs[1].err = NoErr /\ last.out.reqs[1].success = "true")

\* a Delete answered without an error and without a success field
C5_Witness ==
    /\ last.op = "Delete"
    /\ last.out.reqs[1].err = NoErr
    /\ last.out.reqs[1].success = "absent"
    /\ last.out.err # NoErr

\* C6: State always sends exactly one info request, for the handle's consumer,
\* and when it succeeds the snapshot it returns, the engine's record at that
\* time, becomes the cached one; a successful create, load or Reset caches a
\* snapshot too; LatestState with a snapshot cached sends nothing and returns
\* that snapshot, and without one it sends exactly one info request.
C6_StateFetchesLatestStateReuses ==
    /\ last.op = "State" =>
          /\ Len(last.out.reqs) = 1
          /\ IsInfoRequest(last.out.reqs[1], last.pre[1].stream, last.pre[1].name)
          /\ (last.out.err = NoErr /\ ~last.out.panic) =>
                /\ Lookup(last.preRemote, last.pre[1].name) # {}
                /\ last.out.info =
                      UnmarshalInfo(The(Lookup(last.preRemote, last.pre[1].name)))
                /\ c[1].lastInfo = Ptr(last.out.info)
    /\ (last.op \in {"NewConsumerFromDefault", "LoadConsumer", "Reset"}
          /\ last.out.err = NoErr /\ ~last.out.panic) =>
          /\ c = last.out.ret
          /\ c[1].lastInfo # Nil
          /\ c[1].lastInfo[1].Name = c[1].name
    /\ last.op = "LatestState" =>
          IF last.pre[1].lastInfo # Nil
          THEN /\ last.out.reqs = <<>>
               /\ last.out.err = NoErr
               /\ last.out.info = last.pre[1].lastInfo[1]
               /\ c = last.pre
          ELSE /\ Len(last.out.reqs) = 1
               /\ IsInfoRequest(last.out.reqs[1], last.pre[1].stream, last.pre[1].name)

\* LatestState returns the cached snapshot without a request although the
\* engine's record has changed since it was fetched
C6_Witness ==
    /\ last.op = "LatestState"
    /\ last.out.reqs = <<>>
    /\ last.out.info = last.pre[1].lastInfo[1]
    /\ Lookup(last.preRemote, last.pre[1].name) # {}
    /\ last.out.info # UnmarshalInfo(The(Lookup(last.preRemote, last.pre[1].name)))

(***************************************************************************)
(* Local checks, checked under SpecMgr.                                    *)
(***************************************************************************)
\* the call of last fails one of the checks the operation makes locally
LocalCheckFails ==
    CASE last.op = "NewConsumerFromDefault" ->
            ~IsValidName(last.stream) \/ ~CanBuild(last.dflt, last.opts)
      [] last.op \in {"LoadConsumer", "LoadOrNewConsumerFromDefault", "NextMsg",
                      "NextMsgContext", "NextMsgRequest"} ->
            ~IsValidName(last.stream) \/ ~IsValidName(last.name)
      [] last.op = "createConsumer" -> last.name = NoName
      [] OTHER -> FALSE

\* C11: a call that fails a local check (an invalid stream or consumer name, a
\* failing option, a failing Validate, an empty name given to createConsumer)
\* returns an error and has sent no request and published nothing; and every
\* create request that is sent carries a configuration that passed Validate.
C11_LocalFailureSendsNothing ==
    /\ LocalCheckFails =>
          /\ last.out.err # NoErr
          /\ last.out.ret = Nil
          /\ last.out.msg = Nil
          /\ last.out.reqs = <<>>
          /\ last.out.pubs = <<>>
          /\ last.out.remote = last.preRemote
    /\ last.op \in {"NewConsumerFromDefault", "LoadOrNewConsumerFromDefault"} =>
          \A i \in 1..Len(last.out.reqs) :
              IsCreateRequest(last.out.reqs[i]) =>
                  /\ last.out.built # Nil
                  /\ Validate(last.out.built[1]).valid
                  /\ last.out.reqs[i].body[1].Config =
                        Marshal(SingleFilter(last.out.built[1]))

\* NextMsg on a connection set up for it, with a consumer name that is not valid
C11_Witness ==
    /\ last.op = "NextMsg"
    /\ nc.UseOldRequestStyle
    /\ IsValidName(last.stream)
    /\ ~IsValidName(last.name)
    /\ last.out.err = Errorf("is not a valid consumer name", last.name)
    /\ last.out.reqs = <<>>

\* C12: a NewConsumerFromDefault whose create request is answered without an
\* error returns, when the reply carries an info record, a handle whose name,
\* configuration and snapshot are those of the record, whatever was built
\* locally; when the reply carries no record it returns an error and no handle.
\* A call that succeeds is always such a call.
C12_HandleFromCreateReply ==
    last.op = "NewConsumerFromDefault" =>
        /\ last.out.err = NoErr =>
              /\ Len(last.out.reqs) = 1
              /\ last.out.reqs[1].err = NoErr
              /\ last.out.reqs[1].info # Nil
        /\ (Len(last.out.reqs) = 1 /\ last.out.reqs[1].err = NoErr) =>
              IF last.out.reqs[1].info = Nil
              THEN /\ last.out.err # NoErr
                   /\ last.out.ret = Nil
              ELSE /\ last.out.err = NoErr
                   /\ last.out.ret # Nil
                   /\ last.out.ret[1].name = last.out.reqs[1].info[1].Name
                   /\ last.out.ret[1].stream = last.stream
                   /\ last.out.ret[1].cfg = Unmarshal(last.out.reqs[1].info[1].Config)
                   /\ last.out.ret[1].lastInfo =
                         Ptr(UnmarshalInfo(last.out.reqs[1].info[1]))

\* the engine echoes MaxDeliver -1 for the 0 that was sent, and the handle has -1
C12_Witness ==
    /\ last.op = "NewConsumerFromDefault"
    /\ last.out.err = NoErr
    /\ last.out.built[1].MaxDeliver = 0
    /\ last.out.reqs[1].body[1].Config.MaxDeliver = 0
    /\ last.out.ret[1].cfg.MaxDeliver = 0 - 1
    /\ last.out.ret[1].lastInfo[1].Config.MaxDeliver = 0 - 1

(***************************************************************************)
(* Concurrent callers, checked under SpecRace.                             *)
(***************************************************************************)
CfgWritePcs == {"reset_wcfg"}
CfgReadPcs == {"conf_rcfg", "dur_rcfg", "upd_rdur", "upd_rcfg"}
InfoWritePcs == {"reset_winfo", "state_winfo"}
InfoReadPcs == {"latest_rinfo"}

\* C13: on a handle shared by concurrent callers no read of a cached field
\* (cfg, lastInfo) is under way while another caller is at a write of that
\* field, and no two writes of it are: the accesses are made under the mutex.
C13_NoAccessOverlapsWrite ==
    \A t \in Callers : \A u \in Callers \ {t} :
        /\ ~(thr[t].pc \in CfgWritePcs /\ thr[u].pc \in CfgReadPcs \cup CfgWritePcs)
        /\ ~(thr[t].pc \in InfoWritePcs /\ thr[u].pc \in InfoReadPcs \cup InfoWritePcs)

(***************************************************************************)
(* Pull retrieval, checked under SpecMgr.                                  *)
(***************************************************************************)
\* C14: on a connection that is not set up for synchronous-style requests
\* (UseOldRequestStyle is false) NextMsg, NextMsgContext and NextMsgRequest
\* each return an error and send and publish nothing.
C14_PullNeedsOldRequestStyle ==
    (last.op \in {"NextMsg", "NextMsgContext", "NextMsgRequest"}
       /\ ~nc.UseOldRequestStyle) =>
        /\ last.out.err # NoErr
        /\ last.out.reqs = <<>>
        /\ last.out.pubs = <<>>

(***************************************************************************)
(* More properties of the Consumer's operations, checked under Spec.       *)
(***************************************************************************)
\* an info request of the last call came back with no error and no info record
InfoReplyWithoutRecord ==
    \E i \in 1..Len(last.out.reqs) :
        /\ last.out.reqs[i].subj[1] = "CONSUMER.INFO"
        /\ last.out.reqs[i].err = NoErr
        /\ last.out.reqs[i].info = Nil

\* C15: every operation ends by returning, whatever the reply: none panics, and
\* an info reply with no error and no info record makes the operation return
\* an error.
C15_NeverPanics ==
    /\ ~last.out.panic
    /\ InfoReplyWithoutRecord => last.out.err # NoErr

Of(opts, Ops) == { k \in 1..Len(opts) : opts[k].op \in Ops }

\* the last option of opts among Ops (there is one)
LastOf(opts, Ops) == opts[CHOOSE k \in Of(opts, Ops) : \A j \in Of(opts, Ops) : j <= k]

BackoffOps == {"BackoffIntervals", "BackoffPolicy"}

\* C17: when two or more options of a successful sequence set the same field,
\* the result has the value of the last of them alone: the description, the
\* durable name, the delivery limit, the backoff, and the filter, where the last
\* FilterStreamBySubject with subjects leaves its one subject in FilterSubject
\* and no FilterSubjects, or its several subjects as FilterSubjects and no
\* FilterSubject.
C17_LaterOptionOverrides ==
    Built =>
        LET cfg == build.res.cfg[1]
            opts == build.opts
        IN  /\ Cardinality(Of(opts, {"ConsumerDescription"})) >= 2 =>
                  cfg.Description = LastOf(opts, {"ConsumerDescription"}).str
            /\ Cardinality(Of(opts, {"DurableName"})) >= 2 =>
                  cfg.Durable = LastOf(opts, {"DurableName"}).name
            /\ Cardinality(Of(opts, {"MaxDeliveryAttempts"})) >= 2 =>
                  cfg.MaxDeliver = LastOf(opts, {"MaxDeliveryAttempts"}).n
            /\ Cardinality(Of(opts, BackoffOps)) >= 2 =>
                  cfg.BackOff = LastOf(opts, BackoffOps).durs
            /\ Cardinality(Of(opts, {"FilterStreamBySubject"})) >= 2 =>
                  LET f == LastOf(opts, {"FilterStreamBySubject"}).subj
                  IN  CASE Len(f) = 0 -> TRUE
                        [] Len(f) = 1 ->
                              cfg.FilterSubject = f[1] /\ Elems(cfg.FilterSubjects) = <<>>
                        [] OTHER ->
                              cfg.FilterSubject = "" /\ Elems(cfg.FilterSubjects) = f

\* C18: FilterStreamBySubject options alone, on a template without a filter,
\* never give a configuration with both a FilterSubject and FilterSubjects.
C18_FilterFormsExclusive ==
    (/\ Built
     /\ build.dflt.FilterSubject = ""
     /\ build.dflt.FilterSubjects.len = 0
     /\ \A k \in 1..Len(build.opts) : build.opts[k].op = "FilterStreamBySubject") =>
        ~(/\ build.res.cfg[1].FilterSubject # ""
          /\ build.res.cfg[1].FilterSubjects.len > 0)

\* C19: BackoffIntervals and BackoffPolicy given an empty list return an error
\* and leave the backoff as it was, so a successful sequence with a backoff
\* option never ends with an empty backoff.
C19_EmptyBackoffRejected ==
    build.called =>
        /\ \A i \in 1..build.res.ran :
              (build.opts[i].op \in BackoffOps /\ build.opts[i].durs = <<>>) =>
                  /\ build.res.errs[i] # NoErr
                  /\ build.res.trace[i].BackOff =
                        (IF i = 1 THEN build.dflt ELSE build.res.trace[i - 1]).BackOff
        /\ (build.res.err = NoErr /\ Of(build.opts, BackoffOps) # {}) =>
              build.res.cfg[1].BackOff # <<>>

IsDefaultTemplate(cfg) == CfgView(cfg) \in {CfgView(DefaultConsumer), CfgView(SampledDefaultConsumer)}

\* C20 as stated: every configuration built from DefaultConsumer or
\* SampledDefaultConsumer, the empty option sequence included, has a MaxDeliver
\* other than 0.
C20_DefaultsDeliver ==
    (Built /\ IsDefaultTemplate(build.dflt)) => build.res.cfg[1].MaxDeliver # 0

\* C20, amended: a configuration built from DefaultConsumer or
\* SampledDefaultConsumer has a MaxDeliver other than 0, that of the last
\* MaxDeliveryAttempts option, when the sequence has such an option; without one
\* it has the templates' MaxDeliver, which is 0.
C20_DefaultsDeliverIfSet ==
    (Built /\ IsDefaultTemplate(build.dflt)) =>
        IF Of(build.opts, {"MaxDeliveryAttempts"}) # {}
        THEN /\ build.res.cfg[1].MaxDeliver # 0
             /\ build.res.cfg[1].MaxDeliver = LastOf(build.opts, {"MaxDeliveryAttempts"}).n
        ELSE build.res.cfg[1].MaxDeliver = 0

\* the sampled default with a description and MaxDeliveryAttempts(2)
C20_Witness ==
    /\ Built
    /\ CfgView(build.dflt) = CfgView(SampledDefaultConsumer)
    /\ build.opts = <<MkConsumerDescription("d1"), MkMaxDeliveryAttempts(2)>>
    /\ build.res.cfg[1].MaxDeliver = 2

(***************************************************************************)
(* The subject of a create request, checked under SpecMgr.                 *)
(***************************************************************************)
\* C22: every create request goes to (stream, name) when the configuration it
\* carries has no FilterSubject and to (stream, name, filter) when it has one;
\* so a validated configuration with exactly one filter subject, as
\* FilterSubject or as the only element of FilterSubjects, is created on the
\* subject with the filter, and one with two or more FilterSubjects and no
\* FilterSubject on the subject without.
C22_SubjectFollowsScalarFilter ==
    /\ \A k \in 1..Len(last.out.reqs) :
          IsCreateRequest(last.out.reqs[k]) =>
              LET r == last.out.reqs[k]
                  req == r.body[1]
              IN  IF req.Config.FilterSubject = ""
                  THEN r.subj = <<"CONSUMER.CREATE", req.Stream, req.Config.Name>>
                  ELSE r.subj = <<"CONSUMER.CREATE", req.Stream, req.Config.Name,
                                   req.Config.FilterSubject>>
    /\ (last.op \in {"NewConsumerFromDefault", "LoadOrNewConsumerFromDefault"}
          /\ last.out.built # Nil) =>
          LET v == last.out.built[1]
              r == last.out.reqs[Len(last.out.reqs)]
          IN  /\ (v.FilterSubject # "" /\ v.FilterSubjects.len = 0) =>
                    r.subj = <<"CONSUMER.CREATE", last.stream, v.Name, v.FilterSubject>>
              /\ (v.FilterSubject = "" /\ v.FilterSubjects.len = 1) =>
                    r.subj = <<"CONSUMER.CREATE", last.stream, v.Name,
                               Elems(v.FilterSubjects)[1]>>
              /\ (v.FilterSubject = "" /\ v.FilterSubjects.len >= 2) =>
                    r.subj = <<"CONSUMER.CREATE", last.stream, v.Name>>

\* the durable A with the one filter subject "b", set by FilterStreamBySubject
\* on a template without filter, is created on the subject with the filter
C22_Witness ==
    /\ last.op = "NewConsumerFromDefault"
    /\ last.opts = <<MkDurableName(NameA), MkFilterStreamBySubject(<<"b">>)>>
    /\ last.out.built # Nil
    /\ last.out.built[1].FilterSubject = "b"
    /\ Len(last.out.reqs) = 1
    /\ last.out.reqs[1].subj = <<"CONSUMER.CREATE", StreamS, NameA, "b">>
    /\ last.out.err = NoErr

(***************************************************************************)
(* The cached snapshot under concurrent callers, checked under SpecRace.   *)
(***************************************************************************)
\* C21: when the callers' State and Reset calls on the shared handle have all
\* returned, the cached snapshot is the one the most recent fetch obtained.
C21_NewestSnapshotCached ==
    (/\ \A t \in Callers : thr[t].pc = "idle" /\ thr[t].op \in {"State", "Reset"}
     /\ last.op = "loadConsumerInfo") =>
        c[1].lastInfo = Ptr(last.out.info)

(***************************************************************************)
(* Failing operations of the handle, checked under Spec.                   *)
(***************************************************************************)
\* C23: when UpdateConfiguration returns an error the engine accepted no create
\* request of the call, and its consumers are as they were before the call.
C23_UpdateAllOrNothing ==
    (last.op = "UpdateConfiguration" /\ ~last.out.panic /\ last.out.err # NoErr) =>
        /\ \A k \in 1..Len(last.out.reqs) :
              IsCreateRequest(last.out.reqs[k]) => last.out.reqs[k].err # NoErr
        /\ last.out.remote = last.preRemote

\* C24: when UpdateConfiguration, Reset or State returns an error, the handle's
\* cached configuration and cached snapshot are what they were before the call.
C24_FailureKeepsCache ==
    (/\ last.op \in {"UpdateConfiguration", "Reset", "State"}
     /\ ~last.out.panic
     /\ last.out.err # NoErr) =>
        /\ c # Nil
        /\ c[1].cfg = last.pre[1].cfg
        /\ c[1].lastInfo = last.pre[1].lastInfo

\* an UpdateConfiguration whose create the engine accepted and whose reload
\* timed out: the engine has the new description, the cache the old one
C24_Witness ==
    /\ last.op = "UpdateConfiguration"
    /\ last.out.err = ErrTimeout
    /\ Len(last.out.reqs) = 2
    /\ last.out.reqs[1].err = NoErr
    /\ \E i \in Lookup(last.out.remote, last.name) : i.Config.Description = "d2"
    /\ c[1].cfg.Description # "d2"
    /\ c[1].lastInfo = last.pre[1].lastInfo

\* the cached configuration of handle h is the one in its cached snapshot, if any
CfgIsSnapshotCfg(h) == h # Nil => (h[1].lastInfo # Nil => h[1].cfg = h[1].lastInfo[1].Config)

\* C25: in every reachable state with a cached snapshot, the handle's cached
\* configuration equals the configuration inside that snapshot.
C25_CfgMatchesSnapshot == CfgIsSnapshotCfg(c)

(***************************************************************************)
(* Names, checked under SpecMgr (C26) and under Spec (C27).                *)
(***************************************************************************)
\* C26: a handle that LoadOrNewConsumerFromDefault returns without error has
\* the name the call was given, whether the consumer was loaded or created.
C26_HandleHasRequestedName ==
    (/\ last.op = "LoadOrNewConsumerFromDefault"
     /\ ~last.out.panic
     /\ last.out.err = NoErr
     /\ last.out.ret # Nil) =>
        last.out.ret[1].name = last.name

\* C27: every create request of UpdateConfiguration is for the handle's own
\* stream and name, and the call creates no consumer of another name.
C27_UpdateKeepsName ==
    (last.op = "UpdateConfiguration" /\ last.pre # Nil) =>
        /\ \A k \in 1..Len(last.out.reqs) :
              IsCreateRequest(last.out.reqs[k]) =>
                  /\ last.out.reqs[k].subj[2] = last.pre[1].stream
                  /\ last.out.reqs[k].subj[3] = last.pre[1].name
                  /\ last.out.reqs[k].body[1].Stream = last.pre[1].stream
                  /\ last.out.reqs[k].body[1].Config.Name = last.pre[1].name
        /\ { i.Name : i \in last.out.remote } \subseteq
              { i.Name : i \in last.preRemote } \cup {last.pre[1].name}

====
